---------------------------- MODULE Spec2Model ----------------------------
(***************************************************************************)
(* The geolocation cache of hubble-world-ts (class IpGeolocator,           *)
(* geolocate.ts) as a state machine: the persisted store file, the         *)
(* process environment, one IpGeolocator instance per process run, the     *)
(* asynchronous lookup / lookupAll / mergeAndLookupLocations calls made on *)
(* it and the HTTPS requests those calls have in flight.                   *)
(*                                                                         *)
(* Strings that the code inspects character by character (IP keys: the    *)
(* regular expression of isValidIp, String.prototype.trim) are sequences   *)
(* of one-character strings.  JavaScript values are records tagged by      *)
(* "kind".  A text (file content, response body) is a record tagged by     *)
(* "shape"; JSONparse and JSONstringify convert between the two.           *)
(*                                                                         *)
(* Node runs one callback at a time and drains the microtask queue after   *)
(* it, so one action is one callback together with every promise           *)
(* continuation it makes runnable.                                         *)
(*                                                                         *)
(* Spec is the class under any user; SpecSharedFile adds other processes   *)
(* that write the data file; AppSpec is the class as HubbleWorldApp        *)
(* (index.ts) drives it.                                                   *)
(***************************************************************************)
EXTENDS Naturals, Sequences, FiniteSets

VARIABLES
    env,            \* process.env.GEOIP_API_KEY
    file,           \* content of the file at dataFilePath
    made,           \* number of calls made on the cache so far, over all runs
    pc,             \* "start", "ready" (constructed), "faulted" (hasError), "failed" (constructor threw)
    api,            \* the enableAPI argument handed to the constructor
    enableAPI,      \* IpGeolocator.enableAPI
    apiKey,         \* IpGeolocator.apiKey
    err,            \* IpGeolocator.err
    thrown,         \* exception that left the constructor
    ipLocationMap,  \* IpGeolocator.ipLocationMap: entries <<key, value>> in insertion order
    calls           \* the calls made on the instance of this run, in call order

vars == <<env, file, made, pc, api, enableAPI, apiKey, err, thrown,
          ipLocationMap, calls>>

----------------------------------------------------------------------------
(* Bounds *)

\* calls made on the cache, over all runs (the save in the finally of the
\* application's run(), one per run, is not counted)
MaxCalls == 2

\* longest batch handed to lookupAll / mergeAndLookupLocations
MaxBatch == 2

----------------------------------------------------------------------------
(* JavaScript values *)

Undefined == [kind |-> "undefined"]

JNull == [kind |-> "null"]

JNumber(n) == [kind |-> "number", n |-> n]

JString(s) == [kind |-> "string", s |-> s]

Error(message) == [kind |-> "Error", message |-> message]

\* an object typed Record<string, Location>: its own properties in order
Record(props) == [kind |-> "Record", props |-> props]

JArray(items) == [kind |-> "Array", items |-> items]

\* a Location object; of its twelve fields the code reads latitude and longitude
Location(ip, lat, lon) ==
    [kind |-> "object", ip |-> ip, latitude |-> lat, longitude |-> lon]

----------------------------------------------------------------------------
(* Keys *)

Quad(a, b, c, d) == <<a, ".", b, ".", c, ".", d>>

IpA == Quad("1", "2", "3", "4")

IpB == Quad("9", "9", "9", "9")

\* too few groups
BadIp == <<"9", "9", "9", ".", "1">>

\* IpA with a leading blank
PaddedIpA == <<" ">> \o IpA

Digit == {"0", "1", "2", "3", "4", "5", "6", "7", "8", "9"}

WhiteSpace == {" ", "\t", "\n"}

RECURSIVE TrimStart(_)
TrimStart(s) ==
    IF s # <<>> /\ Head(s) \in WhiteSpace THEN TrimStart(Tail(s)) ELSE s

RECURSIVE TrimEnd(_)
TrimEnd(s) ==
    IF s # <<>> /\ s[Len(s)] \in WhiteSpace
    THEN TrimEnd(SubSeq(s, 1, Len(s) - 1))
    ELSE s

\* String.prototype.trim
Trim(s) == TrimEnd(TrimStart(s))

\* the groups of s between its dots
RECURSIVE SplitDots(_, _, _)
SplitDots(s, cur, acc) ==
    IF s = <<>> THEN Append(acc, cur)
    ELSE IF Head(s) = "." THEN SplitDots(Tail(s), <<>>, Append(acc, cur))
    ELSE SplitDots(Tail(s), Append(cur, Head(s)), acc)

IsDigits(g) == Len(g) \in 1..3 /\ \A j \in 1..Len(g) : g[j] \in Digit

\* number of repetitions of (\.\d{1,3}) the expression asks for
DotGroups == 3

\* Mutant of IsValidIp: the expression lost its anchors and its repetition
\* count, and accepts any text with a digit in it.
IsValidIpLoose(ip) == \E i \in 1..Len(ip) : ip[i] \in Digit

\* ip.match('^\\d{1,3}(\\.\\d{1,3}){3}$') !== null
IsValidIp(ip) ==
    LET g == SplitDots(ip, <<>>, <<>>)
    IN  Len(g) = 1 + DotGroups /\ \A i \in 1..Len(g) : IsDigits(g[i])

----------------------------------------------------------------------------
(* Map<string, Location>: a sequence of <<key, value>> with distinct keys *)

EmptyMap == <<>>

Has(m, k) == \E i \in 1..Len(m) : m[i][1] = k

Get(m, k) ==
    IF Has(m, k) THEN m[CHOOSE i \in 1..Len(m) : m[i][1] = k][2] ELSE Undefined

MapSet(m, k, v) ==
    IF Has(m, k)
    THEN [i \in 1..Len(m) |-> IF m[i][1] = k THEN <<k, v>> ELSE m[i]]
    ELSE Append(m, <<k, v>>)

Keys(m) == [i \in 1..Len(m) |-> m[i][1]]

KeySet(ks) == {ks[i] : i \in 1..Len(ks)}

EntrySet(m) == {m[i] : i \in 1..Len(m)}

----------------------------------------------------------------------------
(* Texts and JSON *)

Absent == [shape |-> "absent"]

\* a text that is not JSON
Garbage == [shape |-> "garbage"]

\* the JSON text of a scalar, null or a Location object
ValueText(v) == [shape |-> "value", value |-> v]

\* the JSON text { k1: v1, k2: v2, ... }, members as written
ObjectText(members) == [shape |-> "object", members |-> members]

\* the JSON text [ {...}, {...} ], each element's members as written
ArrayText(elements) == [shape |-> "array", elements |-> elements]

\* the properties JSON.parse gives an object text: a repeated name keeps its
\* first place and takes its last value
RECURSIVE ParseMembers(_, _)
ParseMembers(members, props) ==
    IF members = <<>> THEN props
    ELSE ParseMembers(Tail(members), MapSet(props, Head(members)[1], Head(members)[2]))

JSONparse(text) ==
    CASE text.shape = "value" -> [thrown |-> "none", value |-> text.value]
      [] text.shape = "object" ->
            [thrown |-> "none", value |-> Record(ParseMembers(text.members, <<>>))]
      [] text.shape = "array" ->
            [thrown |-> "none",
             value |-> JArray([i \in 1..Len(text.elements) |->
                                 Record(ParseMembers(text.elements[i], <<>>))])]
      [] OTHER -> [thrown |-> "SyntaxError", value |-> Undefined]

JSONstringify(v) ==
    IF v.kind = "Record" THEN ObjectText(v.props) ELSE ValueText(v)

\* Mutant of ObjectFromEntries: the Map itself is handed to JSON.stringify,
\* and a Map has no enumerable properties of its own.
MapAsObject(m) == Record(<<>>)

\* Object.fromEntries(map)
ObjectFromEntries(m) == Record(m)

\* Object.keys(o) of a value other than null and undefined
ObjectKeys(o) == IF o.kind = "Record" THEN Keys(o.props) ELSE <<>>

\* o[k]
GetProp(o, k) == IF o.kind = "Record" THEN Get(o.props, k) ELSE Undefined

----------------------------------------------------------------------------
(* Construction and load *)

\* Mutant of KeyMissing: the empty string passes for a credential.
KeyUndefined(k) == k = Undefined

\* apiKey === undefined || apiKey === ''
KeyMissing(k) == k = Undefined \/ k = JString("")

\* the body of both forEach callbacks after the key is taken: acc is the
\* exception so far and the map so far, o the parsed object, rawKey its key
LoadEntry(acc, o, rawKey) ==
    LET ip == Trim(rawKey)
        location == GetProp(o, ip)
    IN  IF acc.thrown # "none" THEN acc
        ELSE IF location.kind \in {"undefined", "null"}
             \* location.latitude of undefined or null
             THEN [acc EXCEPT !.thrown = "TypeError"]
             ELSE [acc EXCEPT !.map = MapSet(acc.map, ip, location)]

RECURSIVE LoadKeys(_, _, _)
LoadKeys(acc, o, keys) ==
    IF keys = <<>> THEN acc
    ELSE LoadKeys(LoadEntry(acc, o, Head(keys)), o, Tail(keys))

\* loadFromObject(jsonData)
LoadFromObject(jsonData) ==
    IF jsonData.kind \in {"undefined", "null"}
    \* Object.keys(null)
    THEN [thrown |-> "TypeError", map |-> EmptyMap]
    ELSE LoadKeys([thrown |-> "none", map |-> EmptyMap], jsonData,
                  ObjectKeys(jsonData))

RECURSIVE LoadRecords(_, _)
LoadRecords(acc, items) ==
    IF items = <<>> THEN acc
    ELSE LET record == Head(items)
             keys == ObjectKeys(record)
         IN  IF acc.thrown # "none" THEN acc
             ELSE IF record.kind \in {"undefined", "null"} \/ keys = <<>>
                  \* Object.keys(record)[0].trim() of undefined
                  THEN [acc EXCEPT !.thrown = "TypeError"]
                  ELSE LoadRecords(LoadEntry(acc, record, keys[1]), Tail(items))

\* loadFromArray(jsonData)
LoadFromArray(jsonData) ==
    LoadRecords([thrown |-> "none", map |-> EmptyMap], jsonData.items)

\* load(): err is the Error it returns (Undefined for null), thrown the
\* exception that leaves it, map and apiKey the fields as it leaves them
Load(enabled, key, text) ==
    IF enabled /\ KeyMissing(key)
    THEN [err |-> Error("GEOIP_API_KEY environment variable not set"),
          thrown |-> "none", map |-> EmptyMap, apiKey |-> JString("")]
    ELSE LET k == IF enabled THEN key ELSE JString("")
         IN  IF text = Absent
             THEN [err |-> Undefined, thrown |-> "none", map |-> EmptyMap,
                   apiKey |-> k]
             ELSE LET parsed == JSONparse(text)
                      loaded == IF parsed.value.kind = "Array"
                                THEN LoadFromArray(parsed.value)
                                ELSE LoadFromObject(parsed.value)
                  IN  IF parsed.thrown # "none"
                      THEN [err |-> Undefined, thrown |-> parsed.thrown,
                            map |-> EmptyMap, apiKey |-> k]
                      ELSE [err |-> Undefined, thrown |-> loaded.thrown,
                            map |-> loaded.map, apiKey |-> k]

\* Mutant of ConstructorEnableAPI: the argument is ignored.
ConstructorAlwaysAPI(arg) == TRUE

\* this.enableAPI = enableAPI
ConstructorEnableAPI(arg) == arg

\* hasError()
HasError == err # Undefined

\* the files a run may find at dataFilePath
FileSamples ==
    { Absent,
      Garbage,
      ValueText(JNumber(5)),
      ValueText(JNull),
      ObjectText(<< <<IpA, Location(IpA, 10, 20)>> >>),
      ObjectText(<< <<PaddedIpA, Location(IpA, 10, 20)>> >>),
      ObjectText(<< <<IpA, JNull>> >>),
      ObjectText(<< <<IpA, JNull>>, <<IpB, Location(IpB, 30, 40)>> >>),
      ArrayText(<< << <<PaddedIpA, Location(IpA, 10, 20)>> >> >>),
      ArrayText(<< << <<BadIp, Location(BadIp, 1, 2)>> >>,
                   << <<IpA, Location(IpA, 10, 20)>> >> >>),
      ArrayText(<< <<>> >>) }

EnvSamples == {Undefined, JString(""), JString("k")}

Init ==
    /\ env \in EnvSamples
    /\ file \in FileSamples
    /\ made = 0
    /\ pc = "start"
    /\ api = FALSE
    /\ enableAPI = FALSE
    /\ apiKey = JString("")
    /\ err = Undefined
    /\ thrown = "none"
    /\ ipLocationMap = EmptyMap
    /\ calls = <<>>

\* new IpGeolocator(dataFilePath, arg)
Construct(arg) ==
    LET flag == ConstructorEnableAPI(arg)
        r == Load(flag, env, file)
    IN  /\ pc = "start"
        /\ api' = arg
        /\ enableAPI' = flag
        /\ apiKey' = r.apiKey
        /\ err' = r.err
        /\ thrown' = r.thrown
        /\ ipLocationMap' = IF r.thrown = "none" THEN r.map ELSE EmptyMap
        /\ pc' = IF r.thrown # "none" THEN "failed"
                 ELSE IF r.err # Undefined THEN "faulted"
                 ELSE "ready"
        /\ calls' = <<>>
        /\ UNCHANGED <<env, file, made>>

\* the process ends; the next run starts with the file and the environment
Exit ==
    /\ pc # "start"
    /\ pc' = "start"
    /\ api' = FALSE
    /\ enableAPI' = FALSE
    /\ apiKey' = JString("")
    /\ err' = Undefined
    /\ thrown' = "none"
    /\ ipLocationMap' = EmptyMap
    /\ calls' = <<>>
    /\ UNCHANGED <<env, file, made>>

----------------------------------------------------------------------------
(* Lookups *)

\* The promise of one lookup(ip): state is "pending", "fulfilled" or
\* "rejected", value what it settled with, path the return statement of
\* lookup / fetchLocation that produced it ("fetch": https.get was called).
Fulfilled(ip, value, path) ==
    [ip |-> ip, state |-> "fulfilled", value |-> value, path |-> path]

Pending(ip) ==
    [ip |-> ip, state |-> "pending", value |-> Undefined, path |-> "fetch"]

\* Mutant of Update: the fetched location is not recorded.
UpdateNothing(m, ip, location) == m

\* Mutant of Update: an entry already present is not overwritten.
UpdateIfAbsent(m, ip, location) ==
    IF Has(m, ip) THEN m ELSE MapSet(m, ip, location)

\* Mutant of Update: the fetched entry is appended, whether or not the key
\* is there already.
UpdateAppend(m, ip, location) == Append(m, <<ip, location>>)

\* update(ip, location)
Update(m, ip, location) == MapSet(m, ip, location)

\* Mutant of FetchLocation: the address is not checked.
FetchLocationUnchecked(ip) ==
    IF ~enableAPI
    THEN Fulfilled(ip, Error("API disabled."), "disabled")
    ELSE Pending(ip)

\* fetchLocation(ip) up to the call of https.get
FetchLocation(ip) ==
    IF ~IsValidIp(ip)
    THEN Fulfilled(ip, Error("Invalid IP address."), "invalid")
    ELSE IF ~enableAPI
         THEN Fulfilled(ip, Error("API disabled."), "disabled")
         ELSE Pending(ip)

\* Mutant of Lookup: a miss goes to fetchLocation in either mode.
LookupNoModeCheck(ip) ==
    IF Has(ipLocationMap, ip)
    THEN LET location == Get(ipLocationMap, ip)
         IN  IF location # Undefined
             THEN Fulfilled(ip, location, "cached")
             ELSE Fulfilled(ip, Error("Failed to get location"), "corrupt")
    ELSE FetchLocation(ip)

\* lookup(ip) up to its first suspension
Lookup(ip) ==
    IF Has(ipLocationMap, ip)
    THEN LET location == Get(ipLocationMap, ip)
         IN  IF location # Undefined
             THEN Fulfilled(ip, location, "cached")
             ELSE Fulfilled(ip, Error("Failed to get location"), "corrupt")
    ELSE IF ~enableAPI
         THEN Fulfilled(ip, Error("Failed to get location"), "notfound")
         ELSE FetchLocation(ip)

\* ipAddresses.map(async (ip) => await this.lookup(ip)): every lookup runs
\* to its first suspension before any response is handled
LookupAll(ipAddresses) ==
    [i \in 1..Len(ipAddresses) |-> Lookup(ipAddresses[i])]

\* ipAddresses.filter((ip) => !this.ipLocationMap.has(ip))
ToLookup(ipAddresses) ==
    SelectSeq(ipAddresses, LAMBDA ip : ~Has(ipLocationMap, ip))

\* Mutant of PromiseAllResolve: x goes to the first position still empty,
\* so that the values stand in the order the lookups settled.
PromiseAllPush(values, index, x) ==
    IF \E n \in 1..Len(values) : values[n] = Undefined
    THEN [values EXCEPT ![CHOOSE n \in 1..Len(values) :
                            /\ values[n] = Undefined
                            /\ \A k \in 1..(n - 1) : values[k] # Undefined] = x]
    ELSE values

\* Promise.all: the element function of position index stores x there
PromiseAllResolve(values, index, x) == [values EXCEPT ![index] = x]

AllFulfilled(slots) == \A i \in 1..Len(slots) : slots[i].state = "fulfilled"

\* Mutant of Result: mergeAndLookupLocations hands back only the keys whose
\* location this call fetched.
ResultAddedKeys(op, values, m) ==
    CASE op = "lookup" -> values[1]
      [] op = "lookupAll" -> values
      [] op = "merge" ->
            SelectSeq(Keys(m), LAMBDA k :
                         \E n \in 1..Len(values) : values[n] = Get(m, k))

\* what the call hands its caller once its lookups are fulfilled; m is the
\* map at that moment
Result(op, values, m) ==
    CASE op = "lookup" -> values[1]
      [] op = "lookupAll" -> values
      [] op = "merge" -> Keys(m)

\* A call: op and args as called, slots the lookups it started, values the
\* array Promise.all fills, state "pending", "returned" or "threw", result
\* what the caller got, io the outcome of its writeFileSync ("none": it
\* made none).
NewCall(op, args, slots) ==
    LET values == [i \in 1..Len(slots) |-> slots[i].value]
        done == AllFulfilled(slots)
    IN  [op |-> op, args |-> args, slots |-> slots, values |-> values,
         state |-> IF done THEN "returned" ELSE "pending",
         result |-> IF done THEN Result(op, values, ipLocationMap) ELSE Undefined,
         io |-> "none"]

\* the call after its lookup i settled as slot, the map then being m
Settle(call, i, slot, m) ==
    LET slots == [call.slots EXCEPT ![i] = slot]
        values == IF slot.state = "fulfilled"
                  THEN PromiseAllResolve(call.values, i, slot.value)
                  ELSE call.values
        c == [call EXCEPT !.slots = slots, !.values = values]
    IN  IF call.state # "pending" THEN c
        ELSE IF slot.state = "rejected"
             THEN [c EXCEPT !.state = "threw", !.result = slot.value]
             ELSE IF AllFulfilled(slots)
                  THEN [c EXCEPT !.state = "returned",
                                 !.result = Result(call.op, values, m)]
                  ELSE c

CallKeys == {IpA, IpB, BadIp}

Batches == UNION {[1..n -> CallKeys] : n \in 0..MaxBatch}

CanCall == pc = "ready" /\ made < MaxCalls

\* lookup(ip)
CallLookup(ip) ==
    /\ CanCall
    /\ made' = made + 1
    /\ calls' = Append(calls, NewCall("lookup", <<ip>>, <<Lookup(ip)>>))
    /\ UNCHANGED <<env, file, pc, api, enableAPI, apiKey, err, thrown,
                   ipLocationMap>>

\* lookupAll(ipAddresses)
CallLookupAll(ipAddresses) ==
    /\ CanCall
    /\ made' = made + 1
    /\ calls' = Append(calls, NewCall("lookupAll", ipAddresses,
                                      LookupAll(ipAddresses)))
    /\ UNCHANGED <<env, file, pc, api, enableAPI, apiKey, err, thrown,
                   ipLocationMap>>

\* the lookups mergeAndLookupLocations(ipAddresses) starts
MergeSlots(ipAddresses) ==
    IF enableAPI /\ Len(ToLookup(ipAddresses)) # 0
    THEN LookupAll(ToLookup(ipAddresses))
    ELSE <<>>

\* mergeAndLookupLocations(ipAddresses)
CallMerge(ipAddresses) ==
    /\ CanCall
    /\ made' = made + 1
    /\ calls' = Append(calls, NewCall("merge", ipAddresses,
                                      MergeSlots(ipAddresses)))
    /\ UNCHANGED <<env, file, pc, api, enableAPI, apiKey, err, thrown,
                   ipLocationMap>>

\* the bodies the provider may answer a request for ip with
ResponseBodies(ip) ==
    {Garbage, ValueText(JNull), JSONstringify(Location(ip, 10, 20))}

\* Mutant of RespEnd: the handler writes the mapping through to the data
\* file after update.
RespEndWriteThrough(c, i, data) ==
    /\ c \in 1..Len(calls)
    /\ i \in 1..Len(calls[c].slots)
    /\ calls[c].slots[i].state = "pending"
    /\ data \in ResponseBodies(calls[c].slots[i].ip)
    /\ LET ip == calls[c].slots[i].ip
           parsed == JSONparse(data)
           m == IF parsed.thrown = "none"
                THEN Update(ipLocationMap, ip, parsed.value)
                ELSE ipLocationMap
           slot == IF parsed.thrown = "none"
                   THEN Fulfilled(ip, parsed.value, "fetch")
                   ELSE Fulfilled(ip, Error("Failed to parse JSON response."),
                                  "fetch")
       IN  /\ ipLocationMap' = m
           /\ file' = JSONstringify(ObjectFromEntries(m))
           /\ calls' = [calls EXCEPT ![c] = Settle(calls[c], i, slot, m)]
    /\ UNCHANGED <<env, made, pc, api, enableAPI, apiKey, err, thrown>>

\* resp.on('end'): the response to the request of lookup i of call c is
\* complete, its body being data
RespEnd(c, i, data) ==
    /\ c \in 1..Len(calls)
    /\ i \in 1..Len(calls[c].slots)
    /\ calls[c].slots[i].state = "pending"
    /\ data \in ResponseBodies(calls[c].slots[i].ip)
    /\ LET ip == calls[c].slots[i].ip
           parsed == JSONparse(data)
           m == IF parsed.thrown = "none"
                THEN Update(ipLocationMap, ip, parsed.value)
                ELSE ipLocationMap
           slot == IF parsed.thrown = "none"
                   THEN Fulfilled(ip, parsed.value, "fetch")
                   ELSE Fulfilled(ip, Error("Failed to parse JSON response."),
                                  "fetch")
       IN  /\ ipLocationMap' = m
           /\ calls' = [calls EXCEPT ![c] = Settle(calls[c], i, slot, m)]
    /\ UNCHANGED <<env, file, made, pc, api, enableAPI, apiKey, err, thrown>>

\* resp.on('error'): the response stream of lookup i of call c failed
RespError(c, i) ==
    /\ c \in 1..Len(calls)
    /\ i \in 1..Len(calls[c].slots)
    /\ calls[c].slots[i].state = "pending"
    /\ LET ip == calls[c].slots[i].ip
           slot == [ip |-> ip, state |-> "rejected",
                    value |-> Error("transport"), path |-> "fetch"]
       IN  calls' = [calls EXCEPT ![c] = Settle(calls[c], i, slot, ipLocationMap)]
    /\ UNCHANGED <<env, file, made, pc, api, enableAPI, apiKey, err, thrown,
                   ipLocationMap>>

----------------------------------------------------------------------------
(* Readers *)

\* size()
Size == Len(ipLocationMap)

\* getIPEntries(): the keys the iterator yields, in order
GetIPEntries == Keys(ipLocationMap)

----------------------------------------------------------------------------
(* save *)

\* Mutant of SaveState: the error of writeFileSync is not caught.
SaveRethrows(writeFailed) == IF writeFailed THEN "threw" ELSE "returned"

\* how save() ends given whether writeFileSync threw: the catch logs the
\* error and save returns
SaveState(writeFailed) == "returned"

\* the body of save(): written is whether writeFileSync succeeds, left what
\* a failed write leaves at the path (the old content, or a part of the new)
WriteStore(written, left) ==
    /\ pc = "ready"
    /\ left \in {file, Garbage}
    /\ file' = IF written
               THEN JSONstringify(ObjectFromEntries(ipLocationMap))
               ELSE left
    /\ calls' = Append(calls,
                       [op |-> "save", args |-> <<>>, slots |-> <<>>,
                        values |-> <<>>, state |-> SaveState(~written),
                        result |-> Undefined,
                        io |-> IF written THEN "ok" ELSE "failed"])
    /\ UNCHANGED <<env, pc, api, enableAPI, apiKey, err, thrown, ipLocationMap>>

\* save() as one of the calls a user of the class makes
Save(written, left) ==
    /\ CanCall
    /\ made' = made + 1
    /\ WriteStore(written, left)

----------------------------------------------------------------------------

Next ==
    \/ \E arg \in BOOLEAN : Construct(arg)
    \/ Exit
    \/ \E written \in BOOLEAN, left \in {file, Garbage} : Save(written, left)
    \/ \E ip \in CallKeys : CallLookup(ip)
    \/ \E ips \in Batches : CallLookupAll(ips)
    \/ \E ips \in Batches : CallMerge(ips)
    \/ \E c \in 1..Len(calls) :
          \E i \in 1..Len(calls[c].slots) :
             \E data \in ResponseBodies(calls[c].slots[i].ip) : RespEnd(c, i, data)
    \/ \E c \in 1..Len(calls) :
          \E i \in 1..Len(calls[c].slots) : RespError(c, i)

Spec == Init /\ [][Next]_vars

----------------------------------------------------------------------------
(* The data file in a file system that others write to *)

\* what another process may leave at dataFilePath: nothing, or a store of
\* its own
ExternalTexts ==
    {Absent, ObjectText(<< <<IpB, Location(IpB, 30, 40)>> >>)}

\* another process replaces or removes the data file while an instance is
\* in use
FileChanged(text) ==
    /\ pc = "ready"
    /\ text \in ExternalTexts
    /\ text # file
    /\ file' = text
    /\ UNCHANGED <<env, made, pc, api, enableAPI, apiKey, err, thrown,
                   ipLocationMap, calls>>

NextSharedFile ==
    \/ Next
    \/ \E text \in ExternalTexts : FileChanged(text)

SpecSharedFile == Init /\ [][NextSharedFile]_vars

----------------------------------------------------------------------------
(* HubbleWorldApp (index.ts): the class as the application drives it, run
   with a hub log file.  The steps of one turn of the event loop that the
   model takes one after the other are kept together by FinallyDue: while
   it holds, no other callback runs. *)

\* the initial processing has begun: handleAction has called
\* mergeAndLookupLocations, or the finally of run() has saved
Started == calls # <<>>

NoSaveYet == \A c \in 1..Len(calls) : calls[c].op # "save"

\* the promise of parseAsync has settled and its finally has not run yet
FinallyDue ==
    /\ pc = "ready"
    /\ Started
    /\ NoSaveYet
    /\ calls[1].state # "pending"

\* handleAction: this.geoip = new IpGeolocator(geoipDataFile, api)
HandleAction(arg) == Construct(arg)

\* handleAction: hasError() is true and process.exit(1) ends the process
ExitOnFault == pc = "faulted" /\ Exit

\* handleAction, with the API enabled: processLogUpdates(hubLogFile) hands
\* the addresses parsed from the log to mergeAndLookupLocations
ProcessLogUpdates(updatedIPs) ==
    /\ ~Started
    /\ api
    /\ CallMerge(updatedIPs)

\* run(): .finally(() => this.geoip?.save()), once handleAction has ended:
\* at once when the API is disabled or only the cache is drawn, else when
\* the first mergeAndLookupLocations has returned or failed
Finally(written, left) ==
    /\ NoSaveYet
    /\ IF Started THEN calls[1].state # "pending" ELSE TRUE
    /\ UNCHANGED made
    /\ WriteStore(written, left)

\* the callback of watch(logFilePath): setImmediate, then processLogUpdates
WatchCallback(updatedIPs) ==
    /\ Started
    /\ calls[1].op = "merge"
    /\ ~FinallyDue
    /\ CallMerge(updatedIPs)

\* screen.key(['escape', 'q', 'C-c'], () => process.exit(0))
QuitKey ==
    /\ pc = "failed" \/ (pc = "ready" /\ Started /\ ~FinallyDue)
    /\ Exit

AppNext ==
    \/ \E arg \in BOOLEAN : HandleAction(arg)
    \/ ExitOnFault
    \/ \E ips \in Batches : ProcessLogUpdates(ips)
    \/ \E written \in BOOLEAN, left \in {file, Garbage} : Finally(written, left)
    \/ \E ips \in Batches : WatchCallback(ips)
    \/ QuitKey
    \/ \E c \in 1..Len(calls) :
          \E i \in 1..Len(calls[c].slots) :
             \E data \in ResponseBodies(calls[c].slots[i].ip) :
                ~FinallyDue /\ RespEnd(c, i, data)
    \/ \E c \in 1..Len(calls) :
          \E i \in 1..Len(calls[c].slots) : ~FinallyDue /\ RespError(c, i)

AppSpec == Init /\ [][AppNext]_vars


----------------------------------------------------------------------------
(* Vocabulary of the properties *)

InvalidAddress == Error("Invalid IP address.")

ApiDisabled == Error("API disabled.")

ResponseParseError == Error("Failed to parse JSON response.")

\* lookup uses one message for a miss in cache-backed mode and for a
\* present entry without a value
NotFound == Error("Failed to get location")

IsError(v) == v.kind = "Error"

IsLocation(v) == v.kind = "object"

\* the lookups of call c for which https.get was called
Requests(c) == {i \in 1..Len(c.slots) : c.slots[i].path = "fetch"}

\* this step makes a new call, which is then the last of calls'
Calling == Len(calls') = Len(calls) + 1

----------------------------------------------------------------------------
(* C1 *)

\* the first call i was mergeAndLookupLocations(batch) in API-augmented mode
\* and had returned when this step made the same call again
SecondMerge(i) ==
    /\ Calling
    /\ enableAPI
    /\ i \in 1..Len(calls)
    /\ calls[i].op = "merge"
    /\ calls[i].state = "returned"
    /\ calls'[Len(calls')].op = "merge"
    /\ calls'[Len(calls')].args = calls[i].args

\* C1 as claimed: once mergeAndLookupLocations(batch) has completed, a
\* second mergeAndLookupLocations(batch) issues no remote request and yields
\* the key set of the first, whatever the outcomes of the first call's
\* lookups were.
C1_MergeIdempotentAnyOutcome ==
    [][\A i \in 1..Len(calls) :
          SecondMerge(i) =>
            LET second == calls'[Len(calls')]
            IN  /\ Requests(second) = {}
                /\ second.state = "returned"
                /\ KeySet(second.result) = KeySet(calls[i].result)]_vars

\* no lookup of call c ended in a response parse failure
NoParseFailure(c) ==
    \A n \in 1..Len(c.slots) : c.slots[n].value # ResponseParseError

\* the keys that calls other than call i have fetched and stored
StoredByOthers(i) ==
    UNION {{calls[c].slots[n].ip :
              n \in {x \in 1..Len(calls[c].slots) :
                       /\ calls[c].slots[x].path = "fetch"
                       /\ calls[c].slots[x].state = "fulfilled"
                       /\ ~IsError(calls[c].slots[x].value)}} :
           c \in 1..Len(calls) \ {i}}

\* C1 amended: once mergeAndLookupLocations(batch) has completed with none
\* of its lookups ending in a response parse failure, a second
\* mergeAndLookupLocations(batch) issues no remote request, returns at once
\* and yields the key set of the first, grown only by keys that other calls'
\* fetches have stored since.
C1_MergeIdempotentWhenStored ==
    [][\A i \in 1..Len(calls) :
          SecondMerge(i) /\ NoParseFailure(calls[i]) =>
            LET second == calls'[Len(calls')]
            IN  /\ Requests(second) = {}
                /\ second.state = "returned"
                /\ KeySet(calls[i].result) \subseteq KeySet(second.result)
                /\ KeySet(second.result) \ KeySet(calls[i].result)
                      \subseteq StoredByOthers(i)]_vars

\* two equal merges, the first of which fetched a Location and met an invalid
\* address, the second of which made no request and returned the same keys
C1_Witness ==
    /\ enableAPI
    /\ Len(calls) = 2
    /\ calls[1].op = "merge" /\ calls[2].op = "merge"
    /\ calls[1].args = calls[2].args
    /\ calls[1].state = "returned" /\ calls[2].state = "returned"
    /\ NoParseFailure(calls[1])
    /\ \E n \in 1..Len(calls[1].slots) :
          calls[1].slots[n].path = "fetch" /\ IsLocation(calls[1].slots[n].value)
    /\ \E n \in 1..Len(calls[1].slots) : calls[1].slots[n].value = InvalidAddress
    /\ Requests(calls[2]) = {}
    /\ KeySet(calls[2].result) = KeySet(calls[1].result)

----------------------------------------------------------------------------
(* C2 *)

Settled(c) == \A n \in 1..Len(c.slots) : c.slots[n].state # "pending"

\* C2 as claimed: whatever the outcome of each key (cache hit, fetched,
\* invalid address, parse failure, transport failure), lookupAll never fails
\* as a whole, and once every lookup has settled it has returned a sequence
\* holding each key's own outcome as a value.
C2_BatchFailureIndependence ==
    \A c \in 1..Len(calls) :
        calls[c].op = "lookupAll" =>
            /\ calls[c].state # "threw"
            /\ Settled(calls[c]) =>
                  /\ calls[c].state = "returned"
                  /\ Len(calls[c].result) = Len(calls[c].args)
                  /\ \A n \in 1..Len(calls[c].args) :
                        calls[c].result[n] = calls[c].slots[n].value

----------------------------------------------------------------------------
(* C3 *)

\* C3: the sequence lookupAll(ips) returns is as long as ips, and its i-th
\* element is the outcome of the lookup of ips[i] (the location the provider
\* sent for that address, when it was fetched), in whatever order the
\* fetches completed.
C3_BatchOrdering ==
    \A c \in 1..Len(calls) :
        calls[c].op = "lookupAll" /\ calls[c].state = "returned" =>
            /\ Len(calls[c].result) = Len(calls[c].args)
            /\ \A n \in 1..Len(calls[c].args) :
                  /\ calls[c].slots[n].ip = calls[c].args[n]
                  /\ calls[c].result[n] = calls[c].slots[n].value
                  /\ calls[c].slots[n].path = "fetch"
                        /\ IsLocation(calls[c].result[n])
                     => calls[c].result[n].ip = calls[c].args[n]

\* lookupAll of two different addresses returned two fetched locations
C3_Witness ==
    \E c \in 1..Len(calls) :
        /\ calls[c].op = "lookupAll"
        /\ calls[c].state = "returned"
        /\ calls[c].args = <<IpA, IpB>>
        /\ \A n \in 1..2 :
              calls[c].slots[n].path = "fetch" /\ IsLocation(calls[c].result[n])

----------------------------------------------------------------------------
(* C4 *)

\* C4: a cache constructed with enableAPI = false never issues a remote
\* request, whatever calls are made on it.
C4_CacheBackedNoNetwork ==
    ~api => \A c \in 1..Len(calls) : Requests(calls[c]) = {}

\* a cache-backed instance has answered a merge and a lookup that both name
\* a well-formed address it does not hold
C4_Witness ==
    /\ pc = "ready" /\ ~api
    /\ Len(calls) = 2
    /\ calls[1].op = "merge" /\ calls[2].op \in {"lookup", "lookupAll"}
    /\ \A c \in 1..2 :
          /\ calls[c].state = "returned"
          /\ \E n \in 1..Len(calls[c].args) :
                /\ IsValidIp(calls[c].args[n])
                /\ ~Has(ipLocationMap, calls[c].args[n])

----------------------------------------------------------------------------
(* C5 *)

\* C5: in cache-backed mode lookup(k) returns the stored value when k is in
\* the mapping and the NotFound error otherwise, for well-formed and
\* ill-formed k alike.
C5_CacheBackedDeterminism ==
    pc = "ready" /\ ~enableAPI =>
        \A c \in 1..Len(calls) :
            calls[c].op = "lookup" =>
                LET k == calls[c].args[1]
                IN  /\ calls[c].state = "returned"
                    /\ Has(ipLocationMap, k) =>
                          calls[c].result = Get(ipLocationMap, k)
                    /\ ~Has(ipLocationMap, k) => calls[c].result = NotFound

\* a cache-backed instance returned a stored Location for one key and
\* NotFound for an ill-formed key it does not hold
C5_Witness ==
    /\ pc = "ready" /\ ~enableAPI
    /\ \E c \in 1..Len(calls) :
          /\ calls[c].op = "lookup"
          /\ Has(ipLocationMap, calls[c].args[1])
          /\ IsLocation(calls[c].result)
    /\ \E c \in 1..Len(calls) :
          /\ calls[c].op = "lookup"
          /\ calls[c].args = <<BadIp>>
          /\ calls[c].result = NotFound

----------------------------------------------------------------------------
(* C6 *)

\* every value of the mapping is a Location object
ValidEntries(m) == \A n \in 1..Len(m) : IsLocation(m[n][2])

\* this step is a save() whose write succeeded
Saved ==
    /\ Calling
    /\ calls'[Len(calls')].op = "save"
    /\ calls'[Len(calls')].io = "ok"

\* C6: whenever save() has written a mapping of Location entries, a cache
\* constructed on the written file, in either mode and without an
\* initialization fault, holds a mapping with the same keys and the same
\* Location for each key.
C6_RoundTrip ==
    [][Saved /\ ValidEntries(ipLocationMap) =>
          \A arg \in BOOLEAN :
              LET fresh == Load(ConstructorEnableAPI(arg), env, file')
              IN  fresh.err = Undefined =>
                      /\ fresh.thrown = "none"
                      /\ Len(fresh.map) = Len(ipLocationMap)
                      /\ EntrySet(fresh.map) = EntrySet(ipLocationMap)]_vars

\* a run has started on a file that an earlier run saved, and its mapping,
\* the file's, holds a key that only a fetch could have added
C6_Witness ==
    /\ pc = "ready"
    /\ calls = <<>>
    /\ made = 2
    /\ Has(ipLocationMap, IpB)
    /\ ValidEntries(ipLocationMap)
    /\ file = JSONstringify(ObjectFromEntries(ipLocationMap))

----------------------------------------------------------------------------
(* C7 *)

\* C7: in API-augmented mode the lookup of a key that is not in the mapping
\* and is not four dot-separated groups of one to three digits is fulfilled
\* with the InvalidAddress error, without a remote request; a call fails
\* only through the rejected fetch of a well-formed key.
C7_InvalidShortCircuit ==
    enableAPI =>
        \A c \in 1..Len(calls) :
            /\ \A n \in 1..Len(calls[c].slots) :
                  LET s == calls[c].slots[n]
                  IN  ~IsValidIp(s.ip) /\ s.path \notin {"cached", "corrupt"} =>
                          /\ s.state = "fulfilled"
                          /\ s.value = InvalidAddress
                          /\ n \notin Requests(calls[c])
            /\ \A n \in 1..Len(calls[c].args) :
                  ~IsValidIp(calls[c].args[n]) =>
                      \/ Has(ipLocationMap, calls[c].args[n])
                      \/ \E k \in 1..Len(calls[c].slots) :
                            calls[c].slots[k].ip = calls[c].args[n]
            /\ calls[c].state = "threw" =>
                  \E n \in Requests(calls[c]) :
                      /\ calls[c].slots[n].state = "rejected"
                      /\ IsValidIp(calls[c].slots[n].ip)

\* a batch of an ill-formed and a well-formed key returned InvalidAddress
\* for the one and a fetched Location for the other, with one request
C7_Witness ==
    /\ enableAPI
    /\ \E c \in 1..Len(calls) :
          /\ calls[c].op = "lookupAll"
          /\ calls[c].args = <<BadIp, IpA>>
          /\ calls[c].state = "returned"
          /\ calls[c].result[1] = InvalidAddress
          /\ IsLocation(calls[c].result[2])
          /\ Requests(calls[c]) = {2}

----------------------------------------------------------------------------
(* C8 *)

NoCredential == env \in {Undefined, JString("")}

\* C8: the constructor returns normally with hasError() true and getError()
\* an Error when enableAPI is true and the credential is unset or empty;
\* with the credential present, or with enableAPI false, and no data file
\* it returns normally with hasError() false and an empty mapping.
C8_InitFaultRecorded ==
    [][pc = "start" /\ pc' # "start" =>
          /\ api' /\ NoCredential =>
                /\ thrown' = "none"
                /\ pc' = "faulted"
                /\ HasError'
                /\ IsError(err')
          /\ (~api' \/ ~NoCredential) /\ file = Absent =>
                /\ thrown' = "none"
                /\ pc' = "ready"
                /\ ~HasError'
                /\ ipLocationMap' = EmptyMap]_vars

\* an instance constructed for the API with an empty credential holds its
\* initialization fault
C8_Witness ==
    /\ pc = "faulted"
    /\ api
    /\ env = JString("")
    /\ HasError
    /\ thrown = "none"

----------------------------------------------------------------------------
(* C9 *)

\* C9: a save() whose write fails returns normally and leaves the mapping as
\* it was, and the instance stays usable.
C9_SaveFailureContained ==
    [][/\ Calling
       /\ calls'[Len(calls')].op = "save"
       /\ calls'[Len(calls')].io = "failed"
       => /\ calls'[Len(calls')].state = "returned"
          /\ ipLocationMap' = ipLocationMap
          /\ pc' = "ready"]_vars

\* after a failed save the instance answered a lookup from its mapping
C9_Witness ==
    /\ Len(calls) = 2
    /\ calls[1].op = "save"
    /\ calls[1].io = "failed"
    /\ calls[1].state = "returned"
    /\ calls[2].op = "lookup"
    /\ calls[2].state = "returned"
    /\ IsLocation(calls[2].result)

----------------------------------------------------------------------------
(* C10 *)

\* C10: when a lookup(k) that had to fetch returns a Location, the mapping
\* at that moment maps k to that Location.
C10_MergeBeforeReturn ==
    [][\A c \in 1..Len(calls) :
          /\ Len(calls') = Len(calls)
          /\ calls[c].op = "lookup"
          /\ calls[c].state = "pending"
          /\ calls'[c].state = "returned"
          /\ IsLocation(calls'[c].result)
          => /\ Has(ipLocationMap', calls[c].args[1])
             /\ Get(ipLocationMap', calls[c].args[1]) = calls'[c].result]_vars

\* a lookup of a key that was not cached fetched a Location, which the
\* mapping holds under that key
C10_Witness ==
    /\ enableAPI
    /\ \E c \in 1..Len(calls) :
          /\ calls[c].op = "lookup"
          /\ calls[c].state = "returned"
          /\ calls[c].slots[1].path = "fetch"
          /\ IsLocation(calls[c].result)
          /\ Get(ipLocationMap, calls[c].args[1]) = calls[c].result

----------------------------------------------------------------------------
(* C11 *)

\* call c hands control back to its caller in this step
Returns(c) ==
    /\ c \in 1..Len(calls')
    /\ calls'[c].state = "returned"
    /\ c \in 1..Len(calls) => calls[c].state = "pending"

\* C11: in cache-backed mode mergeAndLookupLocations(ips) starts no lookup,
\* returns at once and leaves the mapping as it was, and no later step of
\* the run changes it; in both modes the key sequence a returning
\* mergeAndLookupLocations hands back is the sequence of all keys of the
\* mapping at that moment.
C11_MergeFrame ==
    [][/\ Calling /\ calls'[Len(calls')].op = "merge" /\ ~enableAPI =>
             /\ ipLocationMap' = ipLocationMap
             /\ calls'[Len(calls')].slots = <<>>
             /\ calls'[Len(calls')].state = "returned"
       /\ pc = "ready" /\ pc' = "ready" /\ ~enableAPI =>
             ipLocationMap' = ipLocationMap
       /\ \A c \in 1..Len(calls') :
             Returns(c) /\ calls'[c].op = "merge" =>
                 calls'[c].result = Keys(ipLocationMap')]_vars

\* a cache-backed instance holding one loaded entry returned that key to a
\* merge naming a well-formed key it does not hold
C11_Witness ==
    /\ pc = "ready" /\ ~enableAPI
    /\ Len(calls) = 1
    /\ calls[1].op = "merge"
    /\ calls[1].args = <<IpB>>
    /\ calls[1].state = "returned"
    /\ calls[1].result = <<IpA>>
    /\ Keys(ipLocationMap) = <<IpA>>

----------------------------------------------------------------------------
(* C12 *)

\* this step is a construction that got past the credential check, and so
\* to the data file
Loading == pc = "start" /\ pc' # "start" /\ ~HasError'

\* every member of every object a text holds: the object's own members for
\* the object shape, the members of each element for the array shape
Members(text) ==
    CASE text.shape = "object" -> KeySet(text.members)
      [] text.shape = "array" ->
            UNION {KeySet(text.elements[n]) : n \in 1..Len(text.elements)}
      [] OTHER -> {}

\* the text is JSON in one of the two accepted shapes: one object, or an
\* array of single-key objects
AcceptedShape(text) ==
    \/ text.shape = "object"
    \/ /\ text.shape = "array"
       /\ \A n \in 1..Len(text.elements) : Len(text.elements[n]) = 1

\* C12 as claimed: a construction that finds a data file whose content is
\* not JSON in an accepted shape fails with an exception that leaves the
\* constructor.
C12_MalformedStoreFatal ==
    [][Loading /\ file # Absent /\ ~AcceptedShape(file) =>
          thrown' # "none" /\ pc' = "failed"]_vars

----------------------------------------------------------------------------
(* C13 *)

\* the entries of the text whose value is there, under their trimmed keys
PresentEntries(text) ==
    {<<Trim(e[1]), e[2]>> : e \in {x \in Members(text) : x[2] # JNull}}

\* C13 as claimed: a construction that finds a data file in an accepted
\* shape, with unpadded keys and some entries whose value is null,
\* completes without exception and holds exactly the entries whose value
\* is there.
C13_EntryTolerance ==
    [][/\ Loading
       /\ file # Absent
       /\ AcceptedShape(file)
       /\ \E e \in Members(file) : e[2] = JNull
       /\ \A e \in Members(file) : Trim(e[1]) = e[1]
       => /\ thrown' = "none"
          /\ pc' = "ready"
          /\ EntrySet(ipLocationMap') = PresentEntries(file)]_vars

----------------------------------------------------------------------------
(* C14 *)

\* C14 as claimed: a construction that finds a data file in an accepted
\* shape whose entries all have a Location, some under a key with leading
\* or trailing whitespace, completes and maps every trimmed key to its
\* entry's Location.
C14_KeyTrimming ==
    [][/\ Loading
       /\ file # Absent
       /\ AcceptedShape(file)
       /\ \A e \in Members(file) : IsLocation(e[2])
       /\ \E e \in Members(file) : Trim(e[1]) # e[1]
       => /\ thrown' = "none"
          /\ \A e \in Members(file) :
                /\ Has(ipLocationMap', Trim(e[1]))
                /\ Get(ipLocationMap', Trim(e[1])) = e[2]]_vars

----------------------------------------------------------------------------
(* C15 *)

\* the positions around the groups of k: its dots, and both ends
GroupEdges(k) == {i \in 1..Len(k) : k[i] = "."} \cup {0, Len(k) + 1}

\* k is four dot-separated groups of one to three digits
DottedQuad(k) ==
    /\ Cardinality(GroupEdges(k)) = 5
    /\ \A i \in 1..Len(k) : k[i] = "." \/ k[i] \in Digit
    /\ \A a \in GroupEdges(k) \ {Len(k) + 1} :
          \E b \in GroupEdges(k) :
              /\ b - a \in 2..4
              /\ \A x \in GroupEdges(k) : x > a => x >= b

\* C15: every key that a step of a constructed instance adds to the mapping
\* is a dotted quad; only construction, which loads the data file, brings
\* in keys of another form.
C15_KeyValidity ==
    [][pc # "start" =>
          \A k \in KeySet(Keys(ipLocationMap')) \ KeySet(Keys(ipLocationMap)) :
              DottedQuad(k)]_vars

\* starting without a data file, a merge that named an ill-formed and a
\* well-formed key has stored the well-formed one only
C15_Witness ==
    /\ enableAPI
    /\ file = Absent
    /\ \E c \in 1..Len(calls) :
          /\ calls[c].op = "merge"
          /\ calls[c].args = <<BadIp, IpA>>
          /\ calls[c].state = "returned"
          /\ calls[c].result = <<IpA>>
    /\ Keys(ipLocationMap) = <<IpA>>

----------------------------------------------------------------------------
(* C16 *)

\* this step is a call of save()
SaveStep == Calling /\ calls'[Len(calls')].op = "save"

\* this step changes nothing but the data file: it is not the program's
ForeignWrite ==
    /\ file' # file
    /\ UNCHANGED <<env, made, pc, api, enableAPI, apiKey, err, thrown,
                   ipLocationMap, calls>>

\* this step is the 'end' handler of the request of lookup i of call c
Responded(c, i) ==
    /\ Len(calls') = Len(calls)
    /\ calls[c].slots[i].state = "pending"
    /\ calls'[c].slots[i].state = "fulfilled"

\* C16: the program changes the data file in save() only: the start of a
\* lookup, lookupAll or mergeAndLookupLocations and the handling of a
\* response leave it as it is; and once an instance is constructed its
\* mapping changes only by the update of a response being handled, never
\* because the file was changed, also by others, in the meantime.
C16_NoWriteThrough ==
    [][/\ file' # file => SaveStep \/ ForeignWrite
       /\ Calling /\ ~SaveStep => file' = file
       /\ Len(calls') = Len(calls) /\ calls' # calls => file' = file
       /\ pc = "ready" /\ pc' = "ready" /\ ipLocationMap' # ipLocationMap =>
             \E c \in 1..Len(calls) :
                 \E i \in 1..Len(calls[c].slots) :
                     /\ Responded(c, i)
                     /\ ipLocationMap' =
                           MapSet(ipLocationMap, calls[c].slots[i].ip,
                                  calls'[c].slots[i].value)]_vars

\* the data file was replaced by a store holding another key after
\* construction, and a lookup of that key since was answered NotFound from
\* the mapping loaded at construction, the file staying as replaced
C16_Witness ==
    /\ pc = "ready" /\ ~enableAPI
    /\ file = ObjectText(<< <<IpB, Location(IpB, 30, 40)>> >>)
    /\ Keys(ipLocationMap) = <<IpA>>
    /\ Len(calls) = 2
    /\ calls[1].op = "lookup" /\ calls[1].args = <<IpA>>
    /\ IsLocation(calls[1].result)
    /\ calls[2].op = "lookup" /\ calls[2].args = <<IpB>>
    /\ calls[2].result = NotFound

----------------------------------------------------------------------------
(* C17 *)

\* C17 as claimed: a lookup that made a remote request and got its response
\* is fulfilled with a Location record or with the ResponseParseError
\* value, whatever the body of the response was.
C17_ResponseValidation ==
    \A c \in 1..Len(calls) :
        \A n \in Requests(calls[c]) :
            calls[c].slots[n].state = "fulfilled" =>
                \/ IsLocation(calls[c].slots[n].value)
                \/ calls[c].slots[n].value = ResponseParseError

----------------------------------------------------------------------------
(* C18 *)

\* C18 as claimed: once a lookupAll or mergeAndLookupLocations call has
\* handed control back to its caller, by returning or by failing, every
\* lookup it started has settled: none of its requests is still in flight.
C18_BatchCompletion ==
    \A c \in 1..Len(calls) :
        calls[c].op \in {"lookupAll", "merge"} /\ calls[c].state # "pending" =>
            Settled(calls[c])

----------------------------------------------------------------------------
(* C19 *)

\* C19 as claimed, for the lookups answered from the mapping: lookup(k) of
\* a key the mapping holds returns the stored Location, or the error value
\* of a corrupt entry (the code gives it the message of NotFound) when what
\* is stored is not one; it never returns null or undefined.
C19_CorruptEntry ==
    \A c \in 1..Len(calls) :
        /\ calls[c].op = "lookup"
        /\ calls[c].state = "returned"
        /\ calls[c].slots[1].path \in {"cached", "corrupt"}
        => \/ IsLocation(calls[c].result)
           \/ calls[c].result = NotFound

----------------------------------------------------------------------------
(* C20 *)

\* the text holds the mapping m: loading it gives the entries of m
Holds(text, m) ==
    LET r == Load(FALSE, env, text)
    IN  r.thrown = "none" /\ EntrySet(r.map) = EntrySet(m)

\* no write of this run has failed
NoWriteFailure == \A c \in 1..Len(calls) : calls[c].io # "failed"

\* C20 as claimed: whenever the application process ends after the cache
\* was constructed without fault and without a failed write, the data file
\* holds the whole mapping as it is in memory at that moment.
C20_FlushAtExit ==
    [][pc = "ready" /\ pc' = "start" /\ NoWriteFailure =>
          Holds(file, ipLocationMap)]_vars

----------------------------------------------------------------------------
(* C21 *)

\* the requests of mergeAndLookupLocations calls that are in flight: call,
\* lookup and address of each
InFlight ==
    UNION {{<<c, n, calls[c].slots[n].ip>> :
              n \in {x \in 1..Len(calls[c].slots) :
                       calls[c].slots[x].state = "pending"}} :
           c \in {x \in 1..Len(calls) : calls[x].op = "merge"}}

\* C21 as claimed: in API-augmented mode no mergeAndLookupLocations call
\* issues two requests for the same address, and no two requests of such
\* calls for the same address are in flight at the same time, also when a
\* batch names an address twice and when a call starts while the fetches
\* of an earlier one are in flight.
C21_Deduplication ==
    enableAPI =>
        /\ \A c \in 1..Len(calls) :
              calls[c].op = "merge" =>
                  \A n, k \in Requests(calls[c]) :
                      calls[c].slots[n].ip = calls[c].slots[k].ip => n = k
        /\ \A r, q \in InFlight : r[3] = q[3] => r = q

----------------------------------------------------------------------------
(* C22 *)

\* lookup i of call c settles in this step
Settles(c, i) ==
    /\ Len(calls') = Len(calls)
    /\ calls[c].slots[i].state = "pending"
    /\ calls'[c].slots[i].state # "pending"

\* C22 as claimed: on a constructed instance the mapping changes only in
\* the step in which a fetch for a key k succeeds, that is yields a
\* Location, and then only by k being mapped to that Location; the step in
\* which a lookup settles with any other outcome, and the start of any call,
\* leave the mapping as it was.
C22_FailedLookupsFrame ==
    [][pc = "ready" /\ pc' = "ready" =>
          /\ ipLocationMap' # ipLocationMap =>
                \E c \in 1..Len(calls) :
                    \E i \in 1..Len(calls[c].slots) :
                        /\ Settles(c, i)
                        /\ IsLocation(calls'[c].slots[i].value)
                        /\ ipLocationMap' =
                              MapSet(ipLocationMap, calls[c].slots[i].ip,
                                     calls'[c].slots[i].value)
          /\ \A c \in 1..Len(calls) :
                \A i \in 1..Len(calls[c].slots) :
                    Settles(c, i) /\ ~IsLocation(calls'[c].slots[i].value) =>
                        ipLocationMap' = ipLocationMap
          /\ Calling => ipLocationMap' = ipLocationMap]_vars

----------------------------------------------------------------------------
(* C23 *)

\* C23: on a constructed instance no step, be it the start of a lookup,
\* lookupAll, mergeAndLookupLocations or save call or the handling of a
\* response, removes a key or makes size() smaller, and before and after
\* every step size() is the number of distinct keys getIPEntries() yields.
C23_MonotonicKeys ==
    [][/\ pc = "ready" /\ pc' = "ready" =>
             /\ KeySet(GetIPEntries) \subseteq KeySet(GetIPEntries')
             /\ Size' >= Size
       /\ Size = Cardinality(KeySet(GetIPEntries))
       /\ Size' = Cardinality(KeySet(GetIPEntries'))]_vars

\* an instance that loaded one key has fetched a second key twice in one
\* batch, the second response overwriting the entry of the first, and
\* holds two keys
C23_Witness ==
    /\ pc = "ready" /\ enableAPI
    /\ GetIPEntries = <<IpA, IpB>>
    /\ Size = 2
    /\ \E c \in 1..Len(calls) :
          /\ calls[c].op = "lookupAll"
          /\ calls[c].args = <<IpB, IpB>>
          /\ calls[c].state = "returned"
          /\ Requests(calls[c]) = {1, 2}
          /\ \A n \in 1..2 : IsLocation(calls[c].result[n])

=============================================================================
